---- MODULE Spec2Model ----
(***************************************************************************)
(* p5.PolySynth (src/src/polysynth.js): a pool of num_voices monophonic    *)
(* voices, a rotating counter poly_counter, a note-triggering call (play)  *)
(* and three parameter calls (setADSR, setNote, setParams).                *)
(*                                                                         *)
(* The voices are modelled as recording doubles: each remembers the last   *)
(* arguments it saw per method and counts its play invocations.  Argument  *)
(* lists are tuples; <<>> stands for "never called".                       *)
(***************************************************************************)
EXTENDS Integers, Sequences, FiniteSets, TLC

\* ------------------------------------------------------------------ bounds
\* Largest voice count passed to the constructor (the smallest is -1).
MaxVoices == 3
\* Number of play calls that return normally in one behaviour.
MaxPlays == 4
\* Number of setADSR, setNote and setParams calls in one behaviour.
MaxSets == 3

\* ------------------------------------------------------------------ inputs
NumArgs == -1 .. MaxVoices
Notes == {60, 64}
Envelopes == {<<1, 1, 5, 1>>, <<2, 2, 3, 2>>}
ParamBags == {[detune |-> 5], [detune |-> 9]}
PlayArgs == {<<0, 1>>, <<1, 0>>, <<-1, 1>>, <<0, -1>>}
Broadcasts == {"setADSR", "setNote", "setParams"}

VARIABLES
  pc,            \* "new" before the constructor has run, "ready" after
  voices,        \* this.voices: function from 0..length-1 to voice doubles
  num_voices,    \* this.num_voices
  poly_counter,  \* this.poly_counter
  made,          \* number of `new synthVoice()` evaluations so far
  op,            \* the last call made on the synth: [m |-> method, a |-> args]
  prev,          \* the method of the call before it
  calls,         \* the voice-method invocations made by the last call, in order
  err,           \* "none", or the exception the last call threw
  nplays,        \* number of play calls that returned normally
  nsets,         \* number of setADSR, setNote and setParams calls
  lastSet,       \* per parameter method, the arguments of its latest call
  since,         \* parameter methods called since the last play (or construction)
  armed,         \* the value of since when the last play was called
  broken,        \* indices of the voices whose methods throw when invoked
  thr            \* per caller running play statement by statement: where it
                 \* is, the voice it invoked, and whether the other caller
                 \* was inside play at that moment

vars == <<pc, voices, num_voices, poly_counter, made, op, prev, calls, err,
          nplays, nsets, lastSet, since, armed, broken, thr>>

\* ------------------------------------------------------------ voice double
\* A fresh voice, the k-th product of the voice constructor (k from 0).
NewVoice(k) ==
  [id |-> k, adsr |-> <<>>, note |-> <<>>, params |-> <<>>, plays |-> 0]

\* The voice double after method m was invoked on it with arguments a.
VoiceCall(v, m, a) ==
  CASE m = "play"      -> [v EXCEPT !.plays = @ + 1]
    [] m = "setADSR"   -> [v EXCEPT !.adsr = a]
    [] m = "setNote"   -> [v EXCEPT !.note = a]
    [] m = "setParams" -> [v EXCEPT !.params = a]

\* Whether the voice at index c throws when one of its methods is invoked.  A
\* voice that throws does so on entry, recording nothing.
VoiceThrows(c) == c \in broken

\* The voice at index v starts to throw (at most one voice at a time does).
Break(v) ==
  /\ pc = "ready"
  /\ broken = {}
  /\ v \in DOMAIN voices
  /\ broken' = {v}
  /\ UNCHANGED <<pc, voices, num_voices, poly_counter, made, op, prev, calls,
                 err, nplays, nsets, lastSet, since, armed, thr>>

\* The voice at index v works again.
Repair(v) ==
  /\ v \in broken
  /\ broken' = broken \ {v}
  /\ UNCHANGED <<pc, voices, num_voices, poly_counter, made, op, prev, calls,
                 err, nplays, nsets, lastSet, since, armed, thr>>

\* ------------------------------------------------------------- constructor
Length(vs) == Cardinality(DOMAIN vs)

\* this.voices.push(x)
Push(vs, x) == vs @@ (Length(vs) :> x)

\* for (var i = 0 ; i < this.num_voices ; i++) this.voices.push(new synthVoice())
\* from index i on, with the array vs and k voices constructed so far: the
\* resulting array and the number of voices constructed.
RECURSIVE ConstructOneShort(_, _, _, _)
ConstructOneShort(vs, i, n, k) ==
  IF i < n - 1
  THEN ConstructOneShort(Push(vs, NewVoice(k)), i + 1, n, k + 1)
  ELSE [voices |-> vs, made |-> k]

RECURSIVE Construct(_, _, _, _)
Construct(vs, i, n, k) ==
  IF i < n
  THEN Construct(Push(vs, NewVoice(k)), i + 1, n, k + 1)
  ELSE [voices |-> vs, made |-> k]

PolySynth(num) ==
  /\ pc = "new"
  /\ pc' = "ready"
  /\ LET r == Construct(<<>>, 0, num, made)
     IN /\ voices' = r.voices
        /\ made' = r.made
  /\ num_voices' = num
  /\ poly_counter' = 0
  /\ op' = [m |-> "new", a |-> <<num>>]
  /\ prev' = op.m
  /\ calls' = <<>>
  /\ err' = "none"
  /\ UNCHANGED <<nplays, nsets, lastSet, since, armed, broken, thr>>

\* -------------------------------------------------------------------- play
\* this.poly_counter += 1; this.poly_counter = this.poly_counter % this.num_voices
AdvanceNoWrap(c, n) == c + 1

Advance(c, n) == (c + 1) % n

\* play as it would be if the counter moved on whether or not the voice's play
\* returned (an increment in a finally clause, or placed before the call).
playAdvancingOnFailure(secondsFromNow, susTime) ==
  /\ pc = "ready"
  /\ nplays < MaxPlays
  /\ op' = [m |-> "play", a |-> <<secondsFromNow, susTime>>]
  /\ prev' = op.m
  /\ armed' = since
  /\ IF poly_counter \in DOMAIN voices /\ VoiceThrows(poly_counter)
     THEN /\ err' = "VoiceFailure"
          /\ calls' = <<[v |-> poly_counter, m |-> "play",
                         a |-> <<secondsFromNow, susTime>>]>>
          /\ poly_counter' = Advance(poly_counter, num_voices)
          /\ UNCHANGED <<voices, nplays, since>>
     ELSE IF poly_counter \in DOMAIN voices
     THEN /\ voices' = [voices EXCEPT ![poly_counter] =
                          VoiceCall(@, "play", <<secondsFromNow, susTime>>)]
          /\ calls' = <<[v |-> poly_counter, m |-> "play",
                         a |-> <<secondsFromNow, susTime>>]>>
          /\ poly_counter' = Advance(poly_counter, num_voices)
          /\ err' = "none"
          /\ nplays' = nplays + 1
          /\ since' = {}
     ELSE /\ err' = "TypeError"
          /\ calls' = <<>>
          /\ UNCHANGED <<voices, poly_counter, nplays, since>>
  /\ UNCHANGED <<pc, num_voices, made, nsets, lastSet, broken, thr>>

\* play as it would be with a check of its arguments in front.
playValidating(secondsFromNow, susTime) ==
  /\ pc = "ready"
  /\ nplays < MaxPlays
  /\ op' = [m |-> "play", a |-> <<secondsFromNow, susTime>>]
  /\ prev' = op.m
  /\ armed' = since
  /\ IF secondsFromNow < 0 \/ susTime < 0
     THEN /\ err' = "InvalidArgument"
          /\ calls' = <<>>
          /\ UNCHANGED <<voices, poly_counter, nplays, since>>
     ELSE IF poly_counter \in DOMAIN voices /\ VoiceThrows(poly_counter)
     THEN /\ err' = "VoiceFailure"
          /\ calls' = <<[v |-> poly_counter, m |-> "play",
                         a |-> <<secondsFromNow, susTime>>]>>
          /\ UNCHANGED <<voices, poly_counter, nplays, since>>
     ELSE IF poly_counter \in DOMAIN voices
     THEN /\ voices' = [voices EXCEPT ![poly_counter] =
                          VoiceCall(@, "play", <<secondsFromNow, susTime>>)]
          /\ calls' = <<[v |-> poly_counter, m |-> "play",
                         a |-> <<secondsFromNow, susTime>>]>>
          /\ poly_counter' = Advance(poly_counter, num_voices)
          /\ err' = "none"
          /\ nplays' = nplays + 1
          /\ since' = {}
     ELSE /\ err' = "TypeError"
          /\ calls' = <<>>
          /\ UNCHANGED <<voices, poly_counter, nplays, since>>
  /\ UNCHANGED <<pc, num_voices, made, nsets, lastSet, broken, thr>>

\* this.voices[this.poly_counter] is undefined when the index is outside the
\* array, and a method call on undefined throws a TypeError before the counter
\* is touched; so does an exception thrown by the voice's play.
play(secondsFromNow, susTime) ==
  /\ pc = "ready"
  /\ nplays < MaxPlays
  /\ op' = [m |-> "play", a |-> <<secondsFromNow, susTime>>]
  /\ prev' = op.m
  /\ armed' = since
  /\ IF poly_counter \in DOMAIN voices /\ VoiceThrows(poly_counter)
     THEN /\ err' = "VoiceFailure"
          /\ calls' = <<[v |-> poly_counter, m |-> "play",
                         a |-> <<secondsFromNow, susTime>>]>>
          /\ UNCHANGED <<voices, poly_counter, nplays, since>>
     ELSE IF poly_counter \in DOMAIN voices
     THEN /\ voices' = [voices EXCEPT ![poly_counter] =
                          VoiceCall(@, "play", <<secondsFromNow, susTime>>)]
          /\ calls' = <<[v |-> poly_counter, m |-> "play",
                         a |-> <<secondsFromNow, susTime>>]>>
          /\ poly_counter' = Advance(poly_counter, num_voices)
          /\ err' = "none"
          /\ nplays' = nplays + 1
          /\ since' = {}
     ELSE /\ err' = "TypeError"
          /\ calls' = <<>>
          /\ UNCHANGED <<voices, poly_counter, nplays, since>>
  /\ UNCHANGED <<pc, num_voices, made, nsets, lastSet, broken, thr>>

\* ------------------------------------------- play, one statement at a time
\* Two callers that enter play without any serialization between them.
Threads == {1, 2}

\* this.poly_counter += 1
IncrementLost(c) == c

Increment(c) == c + 1

\* this.poly_counter = this.poly_counter % this.num_voices
Modulo(c, n) == c % n

InPlay(t) == thr[t].pc \in {"inc", "mod"}

\* Line 106 run by caller t: this.voices[this.poly_counter].play(...).
playInvoke(t, secondsFromNow, susTime) ==
  /\ pc = "ready"
  /\ thr[t].pc = "idle"
  /\ op' = [m |-> "play", a |-> <<secondsFromNow, susTime>>]
  /\ prev' = op.m
  /\ armed' = since
  /\ IF poly_counter \in DOMAIN voices
     THEN /\ voices' = [voices EXCEPT ![poly_counter] =
                          VoiceCall(@, "play", <<secondsFromNow, susTime>>)]
          /\ calls' = <<[v |-> poly_counter, m |-> "play",
                         a |-> <<secondsFromNow, susTime>>]>>
          /\ err' = "none"
          /\ thr' = [thr EXCEPT ![t] =
                       [pc |-> "inc", v |-> poly_counter,
                        mid |-> \E u \in Threads \ {t} : InPlay(u)]]
     ELSE /\ err' = "TypeError"
          /\ calls' = <<>>
          /\ thr' = [thr EXCEPT ![t].pc = "done"]
          /\ UNCHANGED voices
  /\ UNCHANGED <<pc, num_voices, poly_counter, made, nplays, nsets, lastSet,
                 since, broken>>

\* Line 107 run by caller t.
playIncrement(t) ==
  /\ thr[t].pc = "inc"
  /\ poly_counter' = Increment(poly_counter)
  /\ thr' = [thr EXCEPT ![t].pc = "mod"]
  /\ UNCHANGED <<pc, voices, num_voices, made, op, prev, calls, err, nplays,
                 nsets, lastSet, since, armed, broken>>

\* Line 108 run by caller t, after which its play returns.
playModulo(t) ==
  /\ thr[t].pc = "mod"
  /\ poly_counter' = Modulo(poly_counter, num_voices)
  /\ thr' = [thr EXCEPT ![t].pc = "done"]
  /\ nplays' = nplays + 1
  /\ since' = {}
  /\ UNCHANGED <<pc, voices, num_voices, made, op, prev, calls, err, nsets,
                 lastSet, armed, broken>>

\* ------------------------------------------------- setADSR, setNote, setParams
\* for (var i = 0 ; i < this.num_voices ; i++) this.voices[this.poly_counter].m(a)
\* from index i on: the resulting voices, the invocations made, in order, and
\* the exception that ended the loop, if any (an index outside the array, as in
\* play, or an exception thrown by the invoked voice).
RECURSIVE LoopByIndex(_, _, _, _, _, _, _)
LoopByIndex(vs, log, c, n, m, a, i) ==
  IF i < n
  THEN IF i \in DOMAIN vs /\ VoiceThrows(i)
       THEN [voices |-> vs,
             calls |-> Append(log, [v |-> i, m |-> m, a |-> a]),
             err |-> "VoiceFailure"]
       ELSE IF i \in DOMAIN vs
       THEN LoopByIndex([vs EXCEPT ![i] = VoiceCall(@, m, a)],
                        Append(log, [v |-> i, m |-> m, a |-> a]),
                        c, n, m, a, i + 1)
       ELSE [voices |-> vs, calls |-> log, err |-> "TypeError"]
  ELSE [voices |-> vs, calls |-> log, err |-> "none"]

RECURSIVE LoopOneShort(_, _, _, _, _, _, _)
LoopOneShort(vs, log, c, n, m, a, i) ==
  IF i < n - 1
  THEN IF c \in DOMAIN vs /\ VoiceThrows(c)
       THEN [voices |-> vs,
             calls |-> Append(log, [v |-> c, m |-> m, a |-> a]),
             err |-> "VoiceFailure"]
       ELSE IF c \in DOMAIN vs
       THEN LoopOneShort([vs EXCEPT ![c] = VoiceCall(@, m, a)],
                         Append(log, [v |-> c, m |-> m, a |-> a]),
                         c, n, m, a, i + 1)
       ELSE [voices |-> vs, calls |-> log, err |-> "TypeError"]
  ELSE [voices |-> vs, calls |-> log, err |-> "none"]

RECURSIVE Loop(_, _, _, _, _, _, _)
Loop(vs, log, c, n, m, a, i) ==
  IF i < n
  THEN IF c \in DOMAIN vs /\ VoiceThrows(c)
       THEN [voices |-> vs,
             calls |-> Append(log, [v |-> c, m |-> m, a |-> a]),
             err |-> "VoiceFailure"]
       ELSE IF c \in DOMAIN vs
       THEN Loop([vs EXCEPT ![c] = VoiceCall(@, m, a)],
                 Append(log, [v |-> c, m |-> m, a |-> a]),
                 c, n, m, a, i + 1)
       ELSE [voices |-> vs, calls |-> log, err |-> "TypeError"]
  ELSE [voices |-> vs, calls |-> log, err |-> "none"]

\* The body the three methods share, for method m called with arguments a.
SetAdvancing(m, a) ==
  /\ pc = "ready"
  /\ nsets < MaxSets
  /\ nsets' = nsets + 1
  /\ LET r == Loop(voices, <<>>, poly_counter, num_voices, m, a, 0)
     IN /\ voices' = r.voices
        /\ calls' = r.calls
        /\ err' = r.err
  /\ poly_counter' = IF num_voices > 0 THEN Advance(poly_counter, num_voices)
                                       ELSE poly_counter
  /\ op' = [m |-> m, a |-> a]
  /\ prev' = op.m
  /\ lastSet' = [lastSet EXCEPT ![m] = a]
  /\ since' = since \cup {m}
  /\ UNCHANGED <<pc, num_voices, made, nplays, armed, broken, thr>>

Set(m, a) ==
  /\ pc = "ready"
  /\ nsets < MaxSets
  /\ nsets' = nsets + 1
  /\ LET r == Loop(voices, <<>>, poly_counter, num_voices, m, a, 0)
     IN /\ voices' = r.voices
        /\ calls' = r.calls
        /\ err' = r.err
  /\ op' = [m |-> m, a |-> a]
  /\ prev' = op.m
  /\ lastSet' = [lastSet EXCEPT ![m] = a]
  /\ since' = since \cup {m}
  /\ UNCHANGED <<pc, num_voices, poly_counter, made, nplays, armed, broken,
                 thr>>

setADSR(a, d, s, r) == Set("setADSR", <<a, d, s, r>>)

setNote(note) == Set("setNote", <<note>>)

setParams(params) == Set("setParams", <<params>>)

\* ----------------------------------------------------------- specification
Init ==
  /\ pc = "new"
  /\ voices = <<>>
  /\ num_voices = 0
  /\ poly_counter = 0
  /\ made = 0
  /\ op = [m |-> "none", a |-> <<>>]
  /\ prev = "none"
  /\ calls = <<>>
  /\ err = "none"
  /\ nplays = 0
  /\ nsets = 0
  /\ lastSet = [m \in Broadcasts |-> <<>>]
  /\ since = {}
  /\ armed = {}
  /\ broken = {}
  /\ thr = [t \in Threads |-> [pc |-> "idle", v |-> -1, mid |-> FALSE]]

Next ==
  \/ \E num \in NumArgs : PolySynth(num)
  \/ \E p \in PlayArgs : play(p[1], p[2])
  \/ \E e \in Envelopes : setADSR(e[1], e[2], e[3], e[4])
  \/ \E n \in Notes : setNote(n)
  \/ \E b \in ParamBags : setParams(b)

Spec == Init /\ [][Next]_vars

\* The same calls on a pool in which a voice may throw.
FailPlayArgs == {<<0, 1>>}
FailEnvelopes == {<<1, 1, 5, 1>>}
FailNotes == {60}
FailParamBags == {[detune |-> 9]}

NextFail ==
  \/ \E num \in NumArgs : PolySynth(num)
  \/ \E p \in FailPlayArgs : play(p[1], p[2])
  \/ \E e \in FailEnvelopes : setADSR(e[1], e[2], e[3], e[4])
  \/ \E n \in FailNotes : setNote(n)
  \/ \E b \in FailParamBags : setParams(b)
  \/ \E v \in 0 .. MaxVoices : Break(v)
  \/ \E v \in 0 .. MaxVoices : Repair(v)

SpecFail == Init /\ [][NextFail]_vars

\* Some serialized play calls, then one play call by each of two callers, run
\* statement by statement in any interleaving.
NextRace ==
  \/ \E num \in NumArgs : PolySynth(num)
  \/ /\ \A t \in Threads : thr[t].pc = "idle"
     /\ \E p \in PlayArgs : play(p[1], p[2])
  \/ \E t \in Threads, p \in FailPlayArgs : playInvoke(t, p[1], p[2])
  \/ \E t \in Threads : playIncrement(t)
  \/ \E t \in Threads : playModulo(t)

SpecRace == Init /\ [][NextRace]_vars

\* ------------------------------------------------------------------ claims
\* The voice the last play call invoked (play invokes exactly one).
Triggered == calls[1].v

Played == op.m = "play" /\ err = "none"

\* C1: round-robin cycling.  With N >= 1 voices the k-th play call (k from 0)
\* triggers voice k mod N: after nplays play calls the counter stands at
\* nplays mod N, the last call triggered voice (nplays - 1) mod N and nothing
\* else, and voice v has been played once for every k < nplays with
\* k mod N = v (so N calls play each voice once, and call N + 1 plays voice 0).
RoundRobin ==
  (pc = "ready" /\ num_voices >= 1) =>
    /\ poly_counter = nplays % num_voices
    /\ \A v \in DOMAIN voices :
         voices[v].plays =
           Cardinality({k \in 0 .. nplays - 1 : k % num_voices = v})
    /\ Played => calls = <<[v |-> (nplays - 1) % num_voices,
                            m |-> "play", a |-> op.a]>>

\* The (N+1)th play call of a pool of N >= 2 voices has just triggered
\* voice 0 for the second time.
RoundRobinWrapped ==
  /\ num_voices >= 2
  /\ Played
  /\ nplays = num_voices + 1
  /\ Triggered = 0
  /\ voices[0].plays = 2
  /\ \A v \in DOMAIN voices : v # 0 => voices[v].plays = 1

\* C2: broadcast completeness.  When a setNote(n) call has returned, every
\* voice of the pool has n as its last-seen note.
BroadcastCompleteness ==
  (op.m = "setNote" /\ err = "none") =>
    \A v \in DOMAIN voices : voices[v].note = op.a

\* C3: one setADSR call invokes setADSR once on every voice, in index order
\* 0..N-1, with the call's four arguments, whatever the counter is.
EnvelopeOncePerVoice ==
  (op.m = "setADSR" /\ num_voices >= 1) =>
    /\ Len(calls) = num_voices
    /\ \A k \in 1 .. Len(calls) :
         calls[k] = [v |-> k - 1, m |-> "setADSR", a |-> op.a]

\* C4: the counter changes only in play, where it becomes
\* (poly_counter + 1) mod num_voices; setADSR, setNote and setParams leave
\* it, and the array the next play indexes with it, as they were.
CursorFrame ==
  [][/\ op'.m \in Broadcasts =>
          /\ poly_counter' = poly_counter
          /\ DOMAIN voices' = DOMAIN voices
     /\ (op'.m = "play" /\ err' = "none") =>
          poly_counter' = (poly_counter + 1) % num_voices
     /\ poly_counter' # poly_counter => (op'.m = "play" /\ err' = "none")]_vars

\* setADSR, setNote and setParams have all been called since the last play, on
\* a pool whose counter that play had moved off 0, and the counter is still
\* where the play left it.
CursorKeptAcrossBroadcasts ==
  /\ since = Broadcasts
  /\ nplays >= 1
  /\ poly_counter # 0
  /\ poly_counter = nplays % num_voices

\* C5: in every state of a constructed synth the counter is a valid index into
\* voices: 0 <= poly_counter < num_voices.
CursorValidIndex ==
  pc = "ready" => (0 <= poly_counter /\ poly_counter < num_voices)

\* C6: whenever play triggers a voice, that voice's note is the argument of
\* the latest setNote call made on the synth before that play, if there was
\* one, however many play calls lie between the two.
PlayUsesLatestNote ==
  (Played /\ lastSet["setNote"] # <<>>) =>
    voices[Triggered].note = lastSet["setNote"]

\* C7: when setADSR, setParams and setNote have each been called since the
\* previous play (or since construction), the voice the next play triggers
\* holds the arguments of the latest call of each.
PlayAfterFullSetup ==
  (Played /\ armed = Broadcasts) =>
    /\ voices[Triggered].adsr = lastSet["setADSR"]
    /\ voices[Triggered].params = lastSet["setParams"]
    /\ voices[Triggered].note = lastSet["setNote"]

\* A play that followed a full setup (all three methods called since the
\* play before it) triggered a voice other than voice 0.
FullSetupOffZero ==
  /\ Played
  /\ armed = Broadcasts
  /\ Triggered # 0
  /\ nsets = MaxSets
  /\ lastSet["setNote"] # <<>>

\* C8: last write wins, uniformly.  When setParams(p2) has returned right
\* after another setParams call, every voice holds p2.
LastWriteWins ==
  (op.m = "setParams" /\ prev = "setParams" /\ err = "none") =>
    \A v \in DOMAIN voices : voices[v].params = op.a

\* C9: construction validation.  Constructing with a voice count of 0 or less
\* fails with InvalidConfiguration, constructs no voice and leaves no synth.
ConstructionValidation ==
  (op.m = "new" /\ op.a[1] <= 0) =>
    /\ err = "InvalidConfiguration"
    /\ made = 0
    /\ pc # "ready"

\* C10: construction with N >= 1 evaluates the voice constructor N times,
\* stores its k-th product in slot k for k = 0..N-1, and sets the counter
\* to 0.
ConstructionAllocates ==
  (op.m = "new" /\ op.a[1] >= 1) =>
    /\ made = op.a[1]
    /\ num_voices = op.a[1]
    /\ DOMAIN voices = 0 .. op.a[1] - 1
    /\ \A i \in DOMAIN voices : voices[i] = NewVoice(i)
    /\ poly_counter = 0
    /\ err = "none"

\* The constructor has just built the largest pool.
ConstructedLargest ==
  /\ op.m = "new"
  /\ op.a[1] = MaxVoices
  /\ made = MaxVoices
  /\ Length(voices) = MaxVoices

\* Some argument of the last play call was negative.
NegativeTime == op.m = "play" /\ (op.a[1] < 0 \/ op.a[2] < 0)

\* C11 as claimed: play with a negative secondsFromNow or susTime fails with
\* InvalidArgument, invokes no voice and leaves the counter where it was.
NegativePlayRejected ==
  NegativeTime =>
    /\ err = "InvalidArgument"
    /\ calls = <<>>

\* C11 as amended: play does not look at its arguments.  A call with a negative
\* argument never raises InvalidArgument; on a pool of N >= 1 voices it invokes
\* the voice at the counter with both arguments unchanged and advances the
\* counter, like any other play, and on an empty pool it throws the TypeError
\* any play throws there.
NegativePlayForwarded ==
  NegativeTime =>
    /\ err # "InvalidArgument"
    /\ num_voices >= 1 =>
         /\ err = "none"
         /\ calls = <<[v |-> (nplays - 1) % num_voices, m |-> "play",
                       a |-> op.a]>>
         /\ poly_counter = nplays % num_voices
    /\ num_voices <= 0 => (err = "TypeError" /\ calls = <<>>)

\* A play with a negative sustain time has triggered a voice other than
\* voice 0 and moved the counter on.
NegativePlayTriggered ==
  /\ NegativeTime
  /\ op.a[2] < 0
  /\ err = "none"
  /\ Triggered # 0
  /\ poly_counter = (Triggered + 1) % num_voices

\* The arguments voice double v last saw for parameter method m.
LastSeen(v, m) ==
  CASE m = "setADSR"   -> v.adsr
    [] m = "setNote"   -> v.note
    [] m = "setParams" -> v.params

\* C12: partial failure of a broadcast.  When a setADSR, setNote or setParams
\* call ends with the exception of voice k, the voices before k hold the new
\* arguments, the voices after k are as they were, and the counter has not
\* moved.
PartialBroadcast ==
  [][(nsets' = nsets + 1 /\ err' = "VoiceFailure") =>
       LET k == calls'[Len(calls')].v
       IN /\ \A v \in DOMAIN voices :
               v < k => LastSeen(voices'[v], op'.m) = op'.a
          /\ \A v \in DOMAIN voices : v > k => voices'[v] = voices[v]
          /\ poly_counter' = poly_counter]_vars

\* C17: when the selected voice's play throws, the exception reaches the
\* caller, the one invocation made is that of the voice the counter still
\* points to (so the next play selects it again), and the counter has moved
\* exactly once per play that returned normally.
PlayFailureKeepsCursor ==
  /\ (op.m = "play" /\ err = "VoiceFailure") =>
       calls = <<[v |-> poly_counter, m |-> "play", a |-> op.a]>>
  /\ (pc = "ready" /\ num_voices >= 1) => poly_counter = nplays % num_voices

\* The play of a voice other than voice 0 has just thrown, after earlier plays
\* had returned normally.
PlayFailedOffZero ==
  /\ op.m = "play"
  /\ err = "VoiceFailure"
  /\ nplays >= 1
  /\ poly_counter # 0
  /\ poly_counter \in broken

\* C13: each play call invokes play on exactly one voice, the one at the value
\* the counter had when the call began, with both arguments unchanged,
\* whatever the arguments and whatever that voice was doing.
PlayDispatchesOne ==
  [][op'.m = "play" =>
       calls' = <<[v |-> poly_counter, m |-> "play", a |-> op'.a]>>]_vars

PoolFixed ==
  pc = "ready" =>
    /\ Length(voices) = num_voices
    /\ DOMAIN voices = 0 .. Length(voices) - 1
    /\ \A i \in DOMAIN voices : voices[i].id = i

\* C14: play is not atomic.  On a pool of two or more voices, two play calls
\* invoke the same voice only if one of them invoked its voice while the other
\* was between its invocation and its return (lines 107-108 still to run):
\* calls that run one after the other reach two distinct voices.
SameVoiceOnlyWhenInterleaved ==
  (/\ num_voices >= 2
   /\ thr[1].v >= 0
   /\ thr[1].v = thr[2].v) => (thr[1].mid \/ thr[2].mid)

\* Both calls have returned, on a pool of two or more voices, and both invoked
\* the same voice.
RaceSameVoice ==
  /\ num_voices >= 2
  /\ thr[1].pc = "done"
  /\ thr[2].pc = "done"
  /\ thr[1].v >= 0
  /\ thr[1].v = thr[2].v

====
